---- MODULE Spec2Model ----
(***************************************************************************)
(* Model of the Express backend in src/index.js (latest revision, lines    *)
(* 291-599): the album listing with cover resolution and its node-cache    *)
(* memoization, the paged image listing, and the thumbnail / download      *)
(* stream pipelines.                                                       *)
(*                                                                         *)
(* The collaborators the handlers call are modelled by what they do at the *)
(* call sites: Google Drive's files.list / files.get (query by parent,     *)
(* mime type and name, orderBy createdTime, pageSize, pageToken),          *)
(* node-cache's has / get / set with stdTTL, Node's Readable.pipe and      *)
(* EventEmitter 'error' semantics, and sharp's duplex stream.              *)
(* The clock is in milliseconds, as Date.now() is.                         *)
(***************************************************************************)
EXTENDS Integers, Sequences, FiniteSets, TLC

\* ------------------------------------------------------------- bounds ----
MaxSubs     == 2   \* subfolders per album folder
MaxRequests == 2   \* album-listing requests in one behaviour
MaxGap      == 2   \* ms the clock may advance between two synchronous calls
MaxNow      == 300003   \* the clock stops advancing here
MaxGallery  == 45  \* images in the folder that is listed page by page
MaxStreams  == 2   \* stream requests in one behaviour
MaxChunks   == 3   \* chunks a source stream holds
HighWater   == 2   \* chunks a pipe stage under backpressure would hold

\* ----------------------------------------------------- program constants --
stdTTL   == 300    \* new NodeCache({ stdTTL: 300 }), in seconds
pageSize == 20     \* pageSize: 20 of both image-listing endpoints

Null    == "null"        \* JavaScript null
NoToken == "undefined"   \* JavaScript undefined, where a page token may stand

VARIABLES
  store,   \* the remote Drive tree, in the order Drive lists it (read-only here)
  todo,    \* root ids of the album-listing requests still to arrive
  now,     \* Date.now()
  cache,   \* node-cache's data: key -> [v, t] (root: who computed v, history)
  reqs,    \* the album-listing requests that have arrived, in arrival order
  pager,   \* a client paging through the images of one folder
  streams, \* the thumbnail / download / password requests that have arrived
  serverUp \* the Node process is running

albumVars == <<todo, now, cache, reqs>>
otherVars == <<pager, streams, serverUp>>
vars == <<store, todo, now, cache, reqs, pager, streams, serverUp>>

\* ------------------------------------------------------ the Drive tree ----
Roots    == {"R1", "R2"}
SubNames == {"cover", "raw"}

FolderMime == "application/vnd.google-apps.folder"
ImageMime  == "image/jpeg"
TextMime   == "text/plain"

FolderName(id) == "album-" \o id

Entry(id, parent, name, mimeType, createdTime) ==
  [id |-> id, parent |-> parent, name |-> name, mimeType |-> mimeType,
   createdTime |-> createdTime]

\* The ways a folder holds up to two images with distinct creation times:
\* image k of the folder was created at time p[k].
Shapes == { <<>>, <<1>>, <<1, 2>>, <<2, 1>> }

\* Subfolder images are created with, or after, the album's direct images.
Epochs == {0, 2}

ImagesOf(fid, epoch, p) ==
  [k \in 1..Len(p) |->
     Entry(fid \o "/img" \o ToString(k), fid, "img" \o ToString(k) \o ".jpg",
           ImageMime, epoch + p[k])]

SubId(a, k) == a \o "/sub" \o ToString(k)

RECURSIVE Flatten(_)
Flatten(ss) == IF ss = <<>> THEN <<>> ELSE Head(ss) \o Flatten(Tail(ss))

\* An album folder's subtree: a password file, its direct images, and its
\* subfolders named nm[k] (Drive permits two children of one name), each with
\* its own images created from time `epoch` on.
AlbumTree(a, p, nm, sh, epoch) ==
  <<Entry(a \o "/password", a, "password.txt", TextMime, 0)>>
  \o ImagesOf(a, 0, p)
  \o [k \in 1..Len(nm) |-> Entry(SubId(a, k), a, nm[k], FolderMime, 0)]
  \o Flatten([k \in 1..Len(nm) |-> ImagesOf(SubId(a, k), epoch, sh[k])])

\* Up to MaxSubs subfolders: a cover subfolder of any shape, or a raw
\* subfolder holding one image.
SubKinds == { <<"cover", p>> : p \in Shapes } \cup { <<"raw", <<1>> >> }

AlbumTrees(a) ==
  UNION { { AlbumTree(a, p, [k \in 1..n |-> sk[k][1]], [k \in 1..n |-> sk[k][2]], epoch) :
              p \in Shapes, sk \in [1..n -> SubKinds], epoch \in Epochs } :
          n \in 0..MaxSubs }

\* Root R1 holds albums B and A (listed in that order), root R2 holds album C.
\* B has one direct image, C has a cover subfolder with one image.
StoreWith(treeA) ==
  << Entry("B", "R1", FolderName("B"), FolderMime, 0),
     Entry("A", "R1", FolderName("A"), FolderMime, 0),
     Entry("C", "R2", FolderName("C"), FolderMime, 0) >>
  \o treeA
  \o AlbumTree("B", <<1>>, <<>>, <<>>, 0)
  \o AlbumTree("C", <<>>, <<"cover">>, << <<1>> >>, 0)

Stores == { StoreWith(t) : t \in AlbumTrees("A") }

FixedStore == StoreWith(AlbumTree("A", <<2, 1>>, <<"cover">>, << <<2, 1>> >>, 2))

\* ------------------------------------------- Drive queries (files.list) ---
Take(s, n) == SubSeq(s, 1, IF Len(s) < n THEN Len(s) ELSE n)

IsImage(e)  == e.mimeType = ImageMime     \* mimeType contains 'image/'
IsFolder(e) == e.mimeType = FolderMime

\* orderBy: "createdTime": ascending, stable.
RECURSIVE InsertByCreatedTime(_, _)
InsertByCreatedTime(e, s) ==
  IF s = <<>> THEN <<e>>
  ELSE IF e.createdTime < Head(s).createdTime THEN <<e>> \o s
  ELSE <<Head(s)>> \o InsertByCreatedTime(e, Tail(s))

RECURSIVE OrderByCreatedTime(_)
OrderByCreatedTime(files) ==
  IF files = <<>> THEN <<>>
  ELSE InsertByCreatedTime(files[Len(files)],
                           OrderByCreatedTime(SubSeq(files, 1, Len(files) - 1)))

ChildrenOf(parent) == SelectSeq(store, LAMBDA e : e.parent = parent)

Project(files, fields) == [i \in 1..Len(files) |-> [f \in fields |-> files[i][f]]]

\* 1. q: '<rootId>' in parents and mimeType = folder; fields files(id, name)
ListAlbumFolders(rootId) ==
  Project(SelectSeq(ChildrenOf(rootId), IsFolder), {"id", "name"})

\* A. q: '<folder.id>' in parents and name = 'cover' and mimeType = folder;
\*    pageSize 1
ListCoverFolder(folderId) ==
  Project(Take(SelectSeq(ChildrenOf(folderId),
                         LAMBDA e : IsFolder(e) /\ e.name = "cover"), 1),
          {"id", "name"})

\* Mutant of ListCoverImages: the query without orderBy.
ListCoverImagesUnordered(coverFolderId) ==
  Project(Take(SelectSeq(ChildrenOf(coverFolderId), IsImage), 1), {"id"})

\* B. q: '<coverFolder.id>' in parents and mimeType contains 'image/';
\*    orderBy createdTime, pageSize 1, fields files(id)
ListCoverImages(coverFolderId) ==
  Project(Take(OrderByCreatedTime(SelectSeq(ChildrenOf(coverFolderId), IsImage)), 1),
          {"id"})

\* Mutant of ListFolderImages: the query without orderBy.
ListFolderImagesUnordered(folderId) ==
  Project(Take(SelectSeq(ChildrenOf(folderId), IsImage), 1), {"id"})

\* C. q: '<folder.id>' in parents and mimeType contains 'image/';
\*    orderBy createdTime, pageSize 1, fields files(id)
ListFolderImages(folderId) ==
  Project(Take(OrderByCreatedTime(SelectSeq(ChildrenOf(folderId), IsImage)), 1),
          {"id"})

\* ---------------------------------------------------------- node-cache ----
\* Mutant of CacheKey: one key for every root.
CacheKeyCoarse(rootId) == "folders"

\* cacheKey = `folders-${rootId}`
CacheKey(rootId) == "folders-" \o rootId

\* _check: an entry is expired once its time t lies before Date.now().
Expired(e, at) == e.t /= 0 /\ e.t < at

\* has / get call _check, which deletes an expired entry (deleteOnExpire).
CacheChecked(c, key, at) ==
  IF key \in DOMAIN c /\ Expired(c[key], at)
  THEN [k \in DOMAIN c \ {key} |-> c[k]]
  ELSE c

CacheHas(c, key, at) == key \in DOMAIN c /\ ~Expired(c[key], at)

\* A JavaScript value that is an album array or undefined.
Defined(v)  == [defined |-> TRUE, v |-> v]
Undefined   == [defined |-> FALSE, v |-> <<>>]

CacheGet(c, key, at) == IF CacheHas(c, key, at) THEN Defined(c[key].v) ELSE Undefined

\* Mutant of CacheSet: an entry already present is kept.
CacheSetFirstWins(c, key, value, at, root) ==
  [k \in DOMAIN c \cup {key} |->
     IF k = key /\ key \notin DOMAIN c
     THEN [v |-> value, t |-> at + stdTTL * 1000, root |-> root]
     ELSE c[k]]

\* set(key, value) with the standard TTL: t = Date.now() + stdTTL * 1000.
CacheSet(c, key, value, at, root) ==
  [k \in DOMAIN c \cup {key} |->
     IF k = key THEN [v |-> value, t |-> at + stdTTL * 1000, root |-> root]
     ELSE c[k]]

\* --------------------------------- GET /api/drive/folders/:rootId ---------
\* res.json(x) answers 200 with x as the body (no body when x is undefined);
\* res.status(500).json({ error }) answers 500. status 0: not answered yet.
OkResponse(x)        == [status |-> 200, defined |-> x.defined, body |-> x.v, error |-> ""]
ErrorResponse(error) == [status |-> 500, defined |-> TRUE, body |-> <<>>, error |-> error]
NoResponse           == [status |-> 0, defined |-> FALSE, body |-> <<>>, error |-> ""]
NoEntry              == [v |-> <<>>, t |-> 0, root |-> ""]
NoFolder             == [id |-> "", name |-> ""]

\* One element of folders.map(async (folder) => ...): pc is the upstream call
\* the task awaits (A, B, C), or done / rejected.
NewTask(folder) ==
  [folder |-> folder, pc |-> "A", coverFolder |-> NoFolder,
   coverImageId |-> Null, calls |-> 1]

Album(t) ==
  [id |-> t.folder.id, name |-> t.folder.name, coverImageId |-> t.coverImageId]

\* Mutant of StepTask: step C reads files[0].id without the optional chaining,
\* which throws on an empty list.
StepTaskUnguarded(t, ok) ==
  IF ~ok THEN [t EXCEPT !.pc = "rejected"]
  ELSE CASE t.pc = "A" ->
              LET files == ListCoverFolder(t.folder.id)
                  coverFolder == IF Len(files) > 0 THEN files[1] ELSE NoFolder
              IN  [t EXCEPT !.coverFolder = coverFolder,
                            !.pc = IF coverFolder /= NoFolder THEN "B" ELSE "C",
                            !.calls = @ + 1]
         [] t.pc = "B" ->
              LET files == ListCoverImages(t.coverFolder.id)
              IN  IF Len(files) > 0
                  THEN [t EXCEPT !.coverImageId = files[1].id, !.pc = "done"]
                  ELSE [t EXCEPT !.pc = "C", !.calls = @ + 1]
         [] t.pc = "C" ->
              LET files == ListFolderImages(t.folder.id)
              IN  IF Len(files) > 0
                  THEN [t EXCEPT !.coverImageId = files[1].id, !.pc = "done"]
                  ELSE [t EXCEPT !.pc = "rejected"]

\* Mutant of StepTask: a call that throws is swallowed and the folder gets no
\* cover.
StepTaskSwallows(t, ok) ==
  IF ~ok THEN [t EXCEPT !.coverImageId = Null, !.pc = "done"]
  ELSE CASE t.pc = "A" ->
              LET files == ListCoverFolder(t.folder.id)
                  coverFolder == IF Len(files) > 0 THEN files[1] ELSE NoFolder
              IN  [t EXCEPT !.coverFolder = coverFolder,
                            !.pc = IF coverFolder /= NoFolder THEN "B" ELSE "C",
                            !.calls = @ + 1]
         [] t.pc = "B" ->
              LET files == ListCoverImages(t.coverFolder.id)
              IN  IF Len(files) > 0
                  THEN [t EXCEPT !.coverImageId = files[1].id, !.pc = "done"]
                  ELSE [t EXCEPT !.pc = "C", !.calls = @ + 1]
         [] t.pc = "C" ->
              LET files == ListFolderImages(t.folder.id)
              IN  [t EXCEPT !.coverImageId = IF Len(files) > 0 THEN files[1].id ELSE Null,
                            !.pc = "done"]

\* The task's continuation when its awaited drive.files.list call returns
\* (ok) or throws (~ok).
StepTask(t, ok) ==
  IF ~ok THEN [t EXCEPT !.pc = "rejected"]
  ELSE CASE t.pc = "A" ->
              LET files == ListCoverFolder(t.folder.id)
                  coverFolder == IF Len(files) > 0 THEN files[1] ELSE NoFolder
              IN  [t EXCEPT !.coverFolder = coverFolder,
                            !.pc = IF coverFolder /= NoFolder THEN "B" ELSE "C",
                            !.calls = @ + 1]
         [] t.pc = "B" ->
              LET files == ListCoverImages(t.coverFolder.id)
              IN  IF Len(files) > 0
                  THEN [t EXCEPT !.coverImageId = files[1].id, !.pc = "done"]
                  ELSE [t EXCEPT !.pc = "C", !.calls = @ + 1]
         [] t.pc = "C" ->
              LET files == ListFolderImages(t.folder.id)
              IN  [t EXCEPT !.coverImageId = IF Len(files) > 0 THEN files[1].id ELSE Null,
                            !.pc = "done"]

Pending(t) == t.pc \in {"A", "B", "C"}

\* The request arrives: cache.has, then either res.json(cache.get(...)) or the
\* first upstream call. The clock may advance between has and get.
Arrive ==
  /\ todo /= <<>>
  /\ LET rootId   == Head(todo)
         cacheKey == CacheKey(rootId)
         seen     == IF cacheKey \in DOMAIN cache THEN cache[cacheKey] ELSE NoEntry
         base     == [rootId |-> rootId, arrivedAt |-> now, seen |-> seen,
                      folders |-> <<>>, tasks |-> <<>>, listCalls |-> 0,
                      threw |-> FALSE, order |-> <<>>, setAt |-> -1]
     IN  IF CacheHas(cache, cacheKey, now)
         THEN \E gap \in 0..MaxGap :
                /\ now + gap <= MaxNow
                /\ now' = now + gap
                /\ cache' = CacheChecked(cache, cacheKey, now + gap)
                /\ reqs' = Append(reqs,
                     base @@ [phase |-> "sent", hit |-> TRUE,
                              res |-> OkResponse(CacheGet(cache, cacheKey, now + gap))])
         ELSE /\ now' = now
              /\ cache' = CacheChecked(cache, cacheKey, now)
              /\ reqs' = Append(reqs,
                   [base EXCEPT !.listCalls = 1]
                   @@ [phase |-> "listing", hit |-> FALSE, res |-> NoResponse])
  /\ todo' = Tail(todo)
  /\ UNCHANGED <<store, otherVars>>

\* Mutant of Resolved: the result in the order in which the tasks finished.
ResolvedInCompletionOrder(q) ==
  LET result == [k \in 1..Len(q.order) |-> Album(q.tasks[q.order[k]])]
  IN  [q EXCEPT !.phase = "sent", !.res = OkResponse(Defined(result)),
                !.setAt = now]

\* Promise.all resolved: cache.set(cacheKey, result); res.json(result). The
\* result holds the tasks' values at the tasks' positions. (order: the
\* sequence in which the tasks settled; setAt: the time of cache.set; both
\* are history.)
Resolved(q) ==
  LET result == [i \in 1..Len(q.tasks) |-> Album(q.tasks[i])]
  IN  [q EXCEPT !.phase = "sent", !.res = OkResponse(Defined(result)),
                !.setAt = now]

\* The folder listing of step 1 returns or throws.
ListReturn(r, ok) ==
  /\ reqs[r].phase = "listing"
  /\ LET q == reqs[r]
     IN  IF ~ok
         THEN /\ reqs' = [reqs EXCEPT ![r] = [q EXCEPT !.phase = "sent",
                            !.threw = TRUE,
                            !.res = ErrorResponse("Failed to fetch folders")]]
              /\ cache' = cache
         ELSE LET folders == ListAlbumFolders(q.rootId)
                  started == [q EXCEPT !.folders = folders, !.phase = "resolving",
                                !.tasks = [i \in 1..Len(folders) |-> NewTask(folders[i])]]
              IN  IF folders = <<>>
                  THEN /\ reqs' = [reqs EXCEPT ![r] = Resolved(started)]
                       /\ cache' = CacheSet(cache, CacheKey(q.rootId),
                                            Resolved(started).res.body, now, q.rootId)
                  ELSE /\ reqs' = [reqs EXCEPT ![r] = started]
                       /\ cache' = cache
  /\ UNCHANGED <<store, todo, now, otherVars>>

\* The call awaited by task i of request r returns or throws. A rejection
\* rejects Promise.all (the catch answers 500, once); the last task to finish
\* resolves it.
TaskReturn(r, i, ok) ==
  /\ Pending(reqs[r].tasks[i])
  /\ LET q     == reqs[r]
         t     == StepTask(q.tasks[i], ok)
         moved == [q EXCEPT !.tasks[i] = t, !.threw = @ \/ ~ok,
                            !.order = IF Pending(t) THEN @ ELSE Append(@, i)]
     IN  IF q.phase /= "resolving"
         THEN reqs' = [reqs EXCEPT ![r] = moved] /\ cache' = cache
         ELSE IF t.pc = "rejected"
         THEN /\ reqs' = [reqs EXCEPT ![r] = [moved EXCEPT !.phase = "sent",
                            !.res = ErrorResponse("Failed to fetch folders")]]
              /\ cache' = cache
         ELSE IF \A j \in 1..Len(moved.tasks) : moved.tasks[j].pc = "done"
         THEN /\ reqs' = [reqs EXCEPT ![r] = Resolved(moved)]
              /\ cache' = CacheSet(cache, CacheKey(q.rootId),
                                   Resolved(moved).res.body, now, q.rootId)
         ELSE reqs' = [reqs EXCEPT ![r] = moved] /\ cache' = cache
  /\ UNCHANGED <<store, todo, now, otherVars>>

\* Time passes: to the brink of a TTL, exactly a TTL, or just past it.
TickSteps == {stdTTL * 1000 - 1, stdTTL * 1000, stdTTL * 1000 + 1}

Tick(d) ==
  /\ now + d <= MaxNow
  /\ now' = now + d
  /\ UNCHANGED <<store, todo, cache, reqs, otherVars>>

\* node-cache's periodic _checkData (checkperiod): expired entries are deleted.
Sweep ==
  /\ \E k \in DOMAIN cache : Expired(cache[k], now)
  /\ cache' = [k \in {j \in DOMAIN cache : ~Expired(cache[j], now)} |-> cache[k]]
  /\ UNCHANGED <<store, todo, now, reqs, otherVars>>

NextAlbums ==
  \/ Arrive
  \/ \E r \in 1..Len(reqs), ok \in BOOLEAN : ListReturn(r, ok)
  \/ \E r \in 1..Len(reqs), ok \in BOOLEAN :
        \E i \in 1..Len(reqs[r].tasks) : TaskReturn(r, i, ok)
  \/ \E d \in TickSteps : Tick(d)
  \/ Sweep

\* ------------------------------------------- the paged image listing ----
\* Drive's page tokens are opaque strings; Drive alone knows the offset one
\* stands for.
TokenOf(offset) == "token-" \o ToString(offset)
OffsetOf(token) == CHOOSE o \in 0..(MaxGallery + 1) : TokenOf(o) = token

Min(a, b) == IF a < b THEN a ELSE b

\* files.list with pageSize and pageToken over the images of a folder: a page
\* of the listing, and nextPageToken when more follows.
DrivePage(folderId, ordered, size, pageToken) ==
  LET images == SelectSeq(ChildrenOf(folderId), IsImage)
      all    == IF ordered THEN OrderByCreatedTime(images) ELSE images
      from   == IF pageToken = NoToken THEN 0 ELSE OffsetOf(pageToken)
      upto   == Min(from + size, Len(all))
  IN  [files |-> Project(SubSeq(all, from + 1, upto), {"id", "name", "mimeType"}),
       nextPageToken |-> IF upto < Len(all) THEN TokenOf(upto) ELSE NoToken]

\* JavaScript's x || y for strings, null and undefined.
JsOr(x, y) == IF x \in {"", Null, NoToken} THEN y ELSE x

PageError(error) ==
  [status |-> 500, files |-> <<>>, nextPageToken |-> NoToken, error |-> error,
   forwarded |-> NoToken, upstream |-> NoToken]

\* Mutant of GetImages: the response always carries nextPageToken null.
GetImagesNoNext(folderId, queryPageToken, ok) ==
  LET pageToken == JsOr(queryPageToken, NoToken)
      data      == DrivePage(folderId, TRUE, pageSize, pageToken)
  IN  IF ~ok THEN PageError("Failed to fetch images")
      ELSE [status |-> 200, files |-> data.files, nextPageToken |-> Null,
            error |-> "", forwarded |-> pageToken, upstream |-> data.nextPageToken]

\* GET /api/drive/images/:folderId?pageToken=...
\* forwarded / upstream: the token handed to Drive and the one Drive returned.
GetImages(folderId, queryPageToken, ok) ==
  LET pageToken == JsOr(queryPageToken, NoToken)
      data      == DrivePage(folderId, TRUE, pageSize, pageToken)
  IN  IF ~ok THEN PageError("Failed to fetch images")
      ELSE [status |-> 200, files |-> data.files,
            nextPageToken |-> JsOr(data.nextPageToken, Null),
            error |-> "", forwarded |-> pageToken, upstream |-> data.nextPageToken]

\* POST /folder-images/:folderId with { pageToken } in the body: Drive's
\* response data is sent as it is; the error is err.message.
PostFolderImages(folderId, bodyPageToken, ok) ==
  LET pageToken == JsOr(bodyPageToken, NoToken)
      data      == DrivePage(folderId, FALSE, pageSize, pageToken)
  IN  IF ~ok THEN PageError("upstream error")
      ELSE [status |-> 200, files |-> data.files,
            nextPageToken |-> data.nextPageToken,
            error |-> "", forwarded |-> pageToken, upstream |-> data.nextPageToken]

Gallery == "G"

NoPager == [endpoint |-> "", token |-> NoToken, got |-> <<>>, state |-> "off",
            last |-> PageError("")]

\* The client asks for the next page with the token it was given, and stops
\* when nextPageToken is null or absent, or the request fails.
FetchPage(ok) ==
  /\ pager.state = "paging"
  /\ LET res == IF pager.endpoint = "GET"
                THEN GetImages(Gallery, pager.token, ok)
                ELSE PostFolderImages(Gallery, pager.token, ok)
     IN  pager' = [pager EXCEPT
           !.last  = res,
           !.got   = IF res.status = 200
                     THEN @ \o [i \in 1..Len(res.files) |-> res.files[i].id] ELSE @,
           !.token = res.nextPageToken,
           !.state = IF res.status /= 200 THEN "failed"
                     ELSE IF res.nextPageToken \in {Null, NoToken} THEN "done"
                     ELSE "paging"]
  /\ UNCHANGED <<store, albumVars, streams, serverUp>>

NextPages == \E ok \in BOOLEAN : FetchPage(ok)

\* ------------------------------------------------ the stream routes ----
\* GET /thumbnail/:fileId, GET /api/file/:id/download and
\* GET /api/drive/password/content/:fileId each open the file's byte stream
\* with drive.files.get(alt: media). A stream request:
\*   kind      thumbnail | download | password
\*   phase     meta (download awaits the metadata) | get (awaits the stream)
\*             | streaming | emitting (sharp's output is being piped to res)
\*             | answered | reset (the connection died with the process)
\*   srcLen    chunks the source stream holds; read: chunks it has emitted
\*   corrupt   the bytes are no decodable image
\*   held      chunks held in memory by sharp (thumbnail) or streamToString
\*   out       body chunks written to the response
\*   status    0 until the status line is sent
\*   closed    the client closed the connection; readAtClose: read at that time
\*   threw     "" or how the awaited upstream call failed (notFound | error)
\*   failed    the transform failed
Kinds == {"thumbnail", "download", "password"}

NewStream(kind, exists, srcLen, corrupt) ==
  [kind |-> kind, exists |-> exists, srcLen |-> srcLen, corrupt |-> corrupt,
   phase |-> IF kind = "download" THEN "meta" ELSE "get",
   read |-> 0, held |-> 0, out |-> 0, outLen |-> 0, status |-> 0, body |-> "",
   closed |-> FALSE, readAtClose |-> 0, threw |-> "", failed |-> FALSE]

StreamArrive(kind, exists, srcLen, corrupt) ==
  /\ serverUp
  /\ Len(streams) < MaxStreams
  /\ streams' = Append(streams, NewStream(kind, exists, srcLen, corrupt))
  /\ UNCHANGED <<store, albumVars, pager, serverUp>>

\* What an awaited drive.files.get can do: return, or throw (404 for an id
\* with no file, or any other failure).
Outcomes(q) == IF q.exists THEN {"ok", "error"} ELSE {"notFound", "error"}

\* The catch block of each route: the same answer whatever was thrown.
CatchBody(kind) ==
  CASE kind = "thumbnail" -> "Failed to load image"
    [] kind = "download"  -> "Failed to download file"
    [] kind = "password"  -> "Failed to fetch password content"

Caught(q, outcome) ==
  [q EXCEPT !.phase = "answered", !.status = 500, !.body = CatchBody(q.kind),
            !.threw = outcome]

\* download: the metadata call returns (the headers are set) or throws.
MetaReturn(i, outcome) ==
  /\ serverUp
  /\ streams[i].phase = "meta"
  /\ outcome \in Outcomes(streams[i])
  /\ streams' = [streams EXCEPT ![i] =
       IF outcome = "ok" THEN [@ EXCEPT !.phase = "get"] ELSE Caught(@, outcome)]
  /\ UNCHANGED <<store, albumVars, pager, serverUp>>

\* The stream call returns: the pipe chain is set up (thumbnail:
\* source.pipe(sharp).pipe(res); download: source.pipe(res); password:
\* streamToString's listeners), or it throws.
GetReturn(i, outcome) ==
  /\ serverUp
  /\ streams[i].phase = "get"
  /\ outcome \in Outcomes(streams[i])
  /\ streams' = [streams EXCEPT ![i] =
       IF outcome = "ok" THEN [@ EXCEPT !.phase = "streaming"] ELSE Caught(@, outcome)]
  /\ UNCHANGED <<store, albumVars, pager, serverUp>>

\* An 'error' event on an emitter with no 'error' listener is thrown; nothing
\* catches it, and the process ends: every connection still open is reset.
Crashed(ss) ==
  [j \in 1..Len(ss) |->
     IF ss[j].phase = "answered" THEN ss[j] ELSE [ss[j] EXCEPT !.phase = "reset"]]

\* source.pipe(dest) keeps the source flowing while it has a destination:
\* the download's only destination, res, is unpiped when res closes; sharp
\* stays piped whatever happens to res.
Flowing(q) ==
  /\ q.phase = "streaming"
  /\ q.read < q.srcLen
  /\ q.kind = "download" => ~q.closed

\* The source emits a chunk. sharp's _write and streamToString's 'data'
\* listener keep it in memory; the download writes it to res.
SourceData(i) ==
  /\ serverUp
  /\ Flowing(streams[i])
  /\ streams' = [streams EXCEPT ![i] =
       IF @.kind = "download"
       THEN [@ EXCEPT !.read = @ + 1, !.out = @ + 1, !.status = 200]
       ELSE [@ EXCEPT !.read = @ + 1, !.held = @ + 1]]
  /\ UNCHANGED <<store, albumVars, pager, serverUp>>

\* The source emits 'error' mid-stream. streamToString listens and rejects
\* (the route answers 500); the piped sources have no listener.
SourceError(i) ==
  /\ serverUp
  /\ Flowing(streams[i])
  /\ IF streams[i].kind = "password"
     THEN /\ streams' = [streams EXCEPT ![i] = Caught(@, "error")]
          /\ serverUp' = TRUE
     ELSE /\ streams' = Crashed(streams)
          /\ serverUp' = FALSE
  /\ UNCHANGED <<store, albumVars, pager>>

\* The source ends. download: res.end(). password: the text is sent.
\* thumbnail: sharp decodes what it holds and emits its output, or emits
\* 'error'; the only 'error' listener of the chain is on res.
SourceEnd(i) ==
  /\ serverUp
  /\ streams[i].phase = "streaming"
  /\ streams[i].read = streams[i].srcLen
  /\ LET q == streams[i]
     IN  CASE q.kind = "download" ->
                /\ streams' = [streams EXCEPT ![i] =
                     IF q.closed THEN [@ EXCEPT !.phase = "answered"]
                     ELSE [@ EXCEPT !.phase = "answered", !.status = 200]]
                /\ serverUp' = TRUE
           [] q.kind = "password" ->
                /\ streams' = [streams EXCEPT ![i] =
                     [@ EXCEPT !.phase = "answered", !.status = 200, !.out = 1, !.held = 0]]
                /\ serverUp' = TRUE
           [] q.kind = "thumbnail" ->
                IF q.corrupt
                THEN /\ streams' = Crashed([streams EXCEPT ![i] = [@ EXCEPT !.failed = TRUE]])
                     /\ serverUp' = FALSE
                ELSE /\ streams' = [streams EXCEPT ![i] =
                          [@ EXCEPT !.phase = "emitting", !.held = 0, !.outLen = 1]]
                     /\ serverUp' = TRUE
  /\ UNCHANGED <<store, albumVars, pager>>

\* sharp's output reaches res (while res is piped), which then ends.
OutputData(i) ==
  /\ serverUp
  /\ streams[i].phase = "emitting"
  /\ ~streams[i].closed
  /\ streams' = [streams EXCEPT ![i] =
       [@ EXCEPT !.out = @ + 1, !.status = 200,
                 !.phase = IF streams[i].out + 1 = streams[i].outLen
                           THEN "answered" ELSE "emitting"]]
  /\ UNCHANGED <<store, albumVars, pager, serverUp>>

\* The client closes the connection: res emits 'close', and the stream piped
\* into res is unpiped from it.
ClientDisconnect(i) ==
  /\ serverUp
  /\ streams[i].phase \in {"streaming", "emitting"}
  /\ streams[i].kind /= "password"
  /\ ~streams[i].closed
  /\ streams' = [streams EXCEPT ![i] =
       [@ EXCEPT !.closed = TRUE, !.readAtClose = streams[i].read]]
  /\ UNCHANGED <<store, albumVars, pager, serverUp>>

NextStreams ==
  \/ \E kind \in Kinds, exists \in BOOLEAN, srcLen \in 1..MaxChunks, corrupt \in BOOLEAN :
       StreamArrive(kind, exists, srcLen, corrupt)
  \/ \E i \in 1..Len(streams), outcome \in {"ok", "notFound", "error"} : MetaReturn(i, outcome)
  \/ \E i \in 1..Len(streams), outcome \in {"ok", "notFound", "error"} : GetReturn(i, outcome)
  \/ \E i \in 1..Len(streams) : SourceData(i)
  \/ \E i \in 1..Len(streams) : SourceError(i)
  \/ \E i \in 1..Len(streams) : SourceEnd(i)
  \/ \E i \in 1..Len(streams) : OutputData(i)
  \/ \E i \in 1..Len(streams) : ClientDisconnect(i)

\* ------------------------------------------------------ specifications ---
\* Cover resolution over every album tree, one request for root R1 at a time.
InitCover ==
  /\ store \in Stores
  /\ todo \in {<<"R1">>}
  /\ now = 0
  /\ cache = <<>>
  /\ reqs = <<>>
  /\ pager = NoPager
  /\ streams = <<>>
  /\ serverUp = TRUE

SpecCover == InitCover /\ [][NextAlbums]_vars

\* The cache under MaxRequests requests for either root, over one tree.
InitCache ==
  /\ store = FixedStore
  /\ todo \in [1..MaxRequests -> Roots]
  /\ now = 0
  /\ cache = <<>>
  /\ reqs = <<>>
  /\ pager = NoPager
  /\ streams = <<>>
  /\ serverUp = TRUE

SpecCache == InitCache /\ [][NextAlbums]_vars

\* Every awaited drive.files.list promise settles (it returns or it throws),
\* and the event loop then runs the continuation that awaits it.
Progress ==
  \E r \in 1..Len(reqs), ok \in BOOLEAN :
     \/ ListReturn(r, ok)
     \/ \E i \in 1..Len(reqs[r].tasks) : TaskReturn(r, i, ok)

SpecCacheFair == InitCache /\ [][NextAlbums]_vars /\ WF_vars(Progress)

\* A folder of up to MaxGallery images, listed by Drive in creation order or
\* against it, paged through either endpoint.
GalleryOf(n, rev) ==
  [k \in 1..n |-> Entry(Gallery \o "/img" \o ToString(k), Gallery,
                        "img" \o ToString(k) \o ".jpg", ImageMime,
                        IF rev THEN n + 1 - k ELSE k)]

InitPages ==
  /\ store \in { GalleryOf(n, rev) : n \in 0..MaxGallery, rev \in BOOLEAN }
  /\ pager \in { [NoPager EXCEPT !.endpoint = e, !.state = "paging"] : e \in {"GET", "POST"} }
  /\ todo = <<>>
  /\ now = 0
  /\ cache = <<>>
  /\ reqs = <<>>
  /\ streams = <<>>
  /\ serverUp = TRUE

SpecPages == InitPages /\ [][NextPages]_vars

InitStreams ==
  /\ store = <<>>
  /\ todo = <<>>
  /\ now = 0
  /\ cache = <<>>
  /\ reqs = <<>>
  /\ pager = NoPager
  /\ streams = <<>>
  /\ serverUp = TRUE

SpecStreams == InitStreams /\ [][NextStreams]_vars

\* ------------------------------------------------- the tree, as stated ---
Range(f) == { f[i] : i \in DOMAIN f }

CoverSubfolders(a) ==
  { e \in Range(store) : e.parent = a /\ e.mimeType = FolderMime /\ e.name = "cover" }

ImagesIn(f) == { e \in Range(store) : e.parent = f /\ e.mimeType = ImageMime }

AlbumFoldersOf(rootId) ==
  { e \in Range(store) : e.parent = rootId /\ e.mimeType = FolderMime }

IsEarliestIn(id, images) ==
  \E e \in images : e.id = id /\ \A h \in images : e.createdTime <= h.createdTime

\* The albums a request was answered with: <<>> unless it was answered 200
\* with a body.
AlbumsSent(q) == IF q.res.status = 200 /\ q.res.defined THEN Range(q.res.body) ELSE {}

AllAlbumsSent == UNION { AlbumsSent(reqs[r]) : r \in 1..Len(reqs) }

\* ------------------------------------------------------------ claims -----
\* C1 as stated: an album that has a cover subfolder holding an image gets
\* the earliest-created image of a cover subfolder as its coverImageId.
C1_AnyCoverSubfolderWins ==
  \A al \in AllAlbumsSent :
    (\E c \in CoverSubfolders(al.id) : ImagesIn(c.id) /= {}) =>
      \E c \in CoverSubfolders(al.id) : IsEarliestIn(al.coverImageId, ImagesIn(c.id))

\* C1 amended: an album that has a cover subfolder, and none without an image
\* (so also: exactly one cover subfolder, holding an image), gets the
\* earliest-created image of one of its cover subfolders as its coverImageId,
\* whatever images lie directly in the album folder.
C1_CoverSubfolderWins ==
  \A al \in AllAlbumsSent :
    (/\ CoverSubfolders(al.id) /= {}
     /\ \A c \in CoverSubfolders(al.id) : ImagesIn(c.id) /= {}) =>
      \E c \in CoverSubfolders(al.id) : IsEarliestIn(al.coverImageId, ImagesIn(c.id))

\* C1 witness: an album was answered whose only cover subfolder holds two
\* images, the later-listed one created first, while both direct images of the
\* album are older than either.
C1_Witness ==
  \E al \in AllAlbumsSent :
    /\ Cardinality(CoverSubfolders(al.id)) = 1
    /\ \E c \in CoverSubfolders(al.id) :
         /\ Cardinality(ImagesIn(c.id)) = 2
         /\ al.coverImageId = c.id \o "/img2"
         /\ \A d \in ImagesIn(al.id), x \in ImagesIn(c.id) : d.createdTime < x.createdTime
    /\ Cardinality(ImagesIn(al.id)) = 2

\* C2: an album none of whose cover subfolders holds an image (or that has
\* none), with an image directly inside, gets its earliest-created direct
\* image as its coverImageId.
C2_DirectImageFallback ==
  \A al \in AllAlbumsSent :
    (/\ \A c \in CoverSubfolders(al.id) : ImagesIn(c.id) = {}
     /\ ImagesIn(al.id) /= {}) =>
      IsEarliestIn(al.coverImageId, ImagesIn(al.id))

\* C2 witness: an album with an empty cover subfolder was answered with its
\* second-listed, first-created direct image.
C2_Witness ==
  \E al \in AllAlbumsSent :
    /\ CoverSubfolders(al.id) /= {}
    /\ \A c \in CoverSubfolders(al.id) : ImagesIn(c.id) = {}
    /\ Cardinality(ImagesIn(al.id)) = 2
    /\ al.coverImageId = al.id \o "/img2"

NoImageAnywhere(a) ==
  /\ \A c \in CoverSubfolders(a) : ImagesIn(c.id) = {}
  /\ ImagesIn(a) = {}

\* C3: an album with no image in a cover subfolder and none directly inside
\* is answered with coverImageId null; a listing whose upstream calls all
\* returned is answered 200 with one album per album folder of the root.
C3_NoCoverIsNotAnError ==
  \A r \in 1..Len(reqs) :
    LET q == reqs[r]
    IN  /\ (q.phase = "sent" /\ ~q.threw) => (q.res.status = 200 /\ q.res.defined)
        /\ (q.res.status = 200 /\ q.res.defined) =>
             /\ { al.id : al \in AlbumsSent(q) } = { e.id : e \in AlbumFoldersOf(q.rootId) }
             /\ \A al \in AlbumsSent(q) :
                  NoImageAnywhere(al.id) => al.coverImageId = Null

\* C3 witness: a listing was answered 200 with an album that has an empty
\* cover subfolder, no direct image, and coverImageId null.
C3_Witness ==
  \E r \in 1..Len(reqs) :
    /\ reqs[r].res.status = 200
    /\ \E al \in AlbumsSent(reqs[r]) :
         /\ NoImageAnywhere(al.id)
         /\ CoverSubfolders(al.id) /= {}
         /\ al.coverImageId = Null

\* C4 as stated: a request that finds an entry stored for its root less than
\* the TTL ago is answered with exactly the stored value; one that arrives
\* once the TTL has elapsed (now >= expiresAt) is not served from the cache
\* but by a live resolution.
C4_CacheRoundTripTTL ==
  \A r \in 1..Len(reqs) :
    LET q == reqs[r]
    IN  q.seen /= NoEntry =>
          IF q.arrivedAt < q.seen.t
          THEN q.res = OkResponse(Defined(q.seen.v))
          ELSE ~q.hit /\ q.listCalls = 1

\* C5: every cache entry lies under the key of the root it was computed for,
\* and a request answered from the cache gets albums of its own root.
C5_CacheKeyScope ==
  /\ \A k \in DOMAIN cache : k = CacheKey(cache[k].root)
  /\ \A r \in 1..Len(reqs) :
       reqs[r].hit =>
         /\ reqs[r].seen.root = reqs[r].rootId
         /\ \A al \in AlbumsSent(reqs[r]) :
              al.id \in { e.id : e \in AlbumFoldersOf(reqs[r].rootId) }

\* C5 witness: listings for both roots have been computed and are cached,
\* each under its own key, with different albums.
C5_Witness ==
  /\ \A root \in Roots : CacheKey(root) \in DOMAIN cache
  /\ cache[CacheKey("R1")].v /= cache[CacheKey("R2")].v
  /\ Len(reqs) = 2

\* C6: the pages a client collects by following nextPageToken from no token
\* hold each image of the folder at most once, and while a token is returned
\* images are still missing; when the client stops on a null / absent nextPageToken it has every image
\* exactly once. nextPageToken is null / absent exactly when Drive returned
\* none, and both tokens pass through unchanged.
C6_PaginationComplete ==
  LET ids == { e.id : e \in ImagesIn(Gallery) }
  IN  /\ \A i, j \in 1..Len(pager.got) : pager.got[i] = pager.got[j] => i = j
      /\ Range(pager.got) \subseteq ids
      /\ pager.state = "done" => Range(pager.got) = ids
      /\ (pager.state = "paging" /\ pager.last.status = 200) =>
           Len(pager.got) < Cardinality(ids)
      /\ pager.last.status = 200 =>
           /\ (pager.last.nextPageToken \in {Null, NoToken}) <=> (pager.last.upstream = NoToken)
           /\ pager.last.upstream /= NoToken => pager.last.nextPageToken = pager.last.upstream

\* C6 witness: the client is done after three pages, the last one short.
C6_Witness ==
  /\ pager.state = "done"
  /\ Len(pager.got) > 2 * pageSize
  /\ Len(pager.got) < 3 * pageSize
  /\ pager.endpoint = "GET"

\* C7 as stated: when the transform of a thumbnail fails before any body
\* byte was written, the client receives a 500 response.
C7_TransformFailureAnswered ==
  \A i \in 1..Len(streams) :
    (streams[i].kind = "thumbnail" /\ streams[i].failed /\ streams[i].out = 0) =>
      streams[i].status = 500

\* C8 as stated: no failure ends the server process, nor resets another
\* request's connection.
C8_FailureIsolation ==
  /\ serverUp
  /\ \A i \in 1..Len(streams) : streams[i].phase /= "reset"

\* C9 as stated: the source chunks a thumbnail pipeline has read and not
\* delivered stay within a constant, and once the client has closed the
\* response the pipeline reads at most that many chunks more.
C9_DisconnectStopsSource ==
  \A i \in 1..Len(streams) :
    streams[i].kind = "thumbnail" =>
      /\ streams[i].held <= HighWater
      /\ streams[i].closed => streams[i].read - streams[i].readAtClose <= HighWater

\* C10 as stated: on one route, the answer to an id that has no file differs,
\* in status or body, from the answer to any other upstream failure.
C10_NotFoundDistinct ==
  \A i, j \in 1..Len(streams) :
    (/\ streams[i].kind = streams[j].kind
     /\ streams[i].threw = "notFound"
     /\ streams[j].threw = "error") =>
      <<streams[i].status, streams[i].body>> /= <<streams[j].status, streams[j].body>>

\* ---------------------------------------------------------------- C11 ----
InFlight(q) == q.phase \in {"listing", "resolving"}

\* The continuation of request r with its awaited call returning.
StepOf(r) ==
  \/ ListReturn(r, TRUE)
  \/ \E i \in 1..Len(reqs[r].tasks) : TaskReturn(r, i, TRUE)

\* No request in flight waits for another request: its own continuation can
\* run whatever the other requests are doing.
C11_NotBlocked ==
  \A r \in 1..Len(reqs) : InFlight(reqs[r]) => ENABLED StepOf(r)

\* A request that missed and answered 200 made its own folder listing and its
\* own resolution of every album folder, and sent and stored that result.
C11_OwnResult ==
  \A r \in 1..Len(reqs) :
     LET q == reqs[r]
     IN  (~q.hit /\ q.res.status = 200) =>
           /\ q.phase = "sent" /\ q.res.defined
           /\ q.listCalls = 1
           /\ q.folders = ListAlbumFolders(q.rootId)
           /\ Len(q.tasks) = Len(q.folders)
           /\ \A i \in 1..Len(q.tasks) :
                 q.tasks[i].pc = "done" /\ q.tasks[i].calls >= 1
           /\ q.res.body = [i \in 1..Len(q.tasks) |-> Album(q.tasks[i])]
           /\ q.setAt >= q.arrivedAt

Setters(root) == { r \in 1..Len(reqs) : reqs[r].rootId = root /\ reqs[r].setAt >= 0 }

\* The entry of a root is the one written by the last request to call set.
C11_LastSetStays ==
  \A root \in Roots :
     CacheKey(root) \in DOMAIN cache =>
       \E r \in Setters(root) :
          /\ \A o \in Setters(root) : reqs[o].setAt <= reqs[r].setAt
          /\ cache[CacheKey(root)].v = reqs[r].res.body
          /\ cache[CacheKey(root)].t = reqs[r].setAt + stdTTL * 1000

\* Two requests for one root are in flight together: both missed before
\* either called set.
C11_Stampeding ==
  \E r1, r2 \in 1..Len(reqs) :
     /\ r1 /= r2 /\ reqs[r1].rootId = reqs[r2].rootId
     /\ InFlight(reqs[r1]) /\ InFlight(reqs[r2])

C11_Quiet == \A r \in 1..Len(reqs) : ~InFlight(reqs[r])

\* C11: requests for one root that all missed before any of them called set
\* each make their own complete enumeration and answer with their own result,
\* none waits for another, all of them complete, and the entry left in the
\* cache is the one of the last request to call set.
C11_StampedeTolerated ==
  /\ [](C11_NotBlocked /\ C11_OwnResult /\ C11_LastSetStays)
  /\ (C11_Stampeding ~> C11_Quiet)

\* C11 witness: two requests for one root both missed, each arrived before
\* the other called set, both answered 200, and the entry is the one of the
\* later set.
C11_Witness ==
  \E r1, r2 \in 1..Len(reqs) :
     /\ reqs[r1].rootId = reqs[r2].rootId
     /\ ~reqs[r1].hit /\ ~reqs[r2].hit
     /\ reqs[r1].res.status = 200 /\ reqs[r2].res.status = 200
     /\ reqs[r2].arrivedAt <= reqs[r1].setAt
     /\ reqs[r1].setAt < reqs[r2].setAt
     /\ CacheKey(reqs[r1].rootId) \in DOMAIN cache
     /\ cache[CacheKey(reqs[r1].rootId)].t = reqs[r2].setAt + stdTTL * 1000

\* ---------------------------------------------------------------- C12 ----
\* A request one of whose upstream calls threw has answered 500, has written
\* nothing to the cache, and has made each upstream call at most once (one
\* folder listing; per folder the steps A, B, C at most once each).
C12_FailedAnswered ==
  \A r \in 1..Len(reqs) :
     LET q == reqs[r]
     IN  q.threw =>
           /\ q.phase = "sent"
           /\ q.res = ErrorResponse("Failed to fetch folders")
           /\ q.setAt = -1
           /\ q.listCalls = 1
           /\ \A i \in 1..Len(q.tasks) :
                 q.tasks[i].calls <= (IF q.tasks[i].coverFolder = NoFolder THEN 2 ELSE 3)

\* The step in which a call of a request throws, and no later step of that
\* request, writes to the cache.
C12_NoWrite ==
  \A r \in 1..Len(reqs) :
     reqs'[r].threw =>
        (reqs'[r] /= reqs[r] => cache' = cache)

\* C12: when an upstream call of an album listing fails (the folder listing
\* or any step of any folder, others running or done), the request is
\* answered with a server error, no call is retried and the request writes no
\* entry to the cache.
C12_FailedListingLeavesCache ==
  []C12_FailedAnswered /\ [][C12_NoWrite]_vars

\* C12 witness: one folder's resolution threw after another folder's had
\* succeeded; the request is answered 500 and its root has no entry.
C12_Witness ==
  \E r \in 1..Len(reqs) :
     /\ reqs[r].threw /\ reqs[r].res.status = 500
     /\ \E i, j \in 1..Len(reqs[r].tasks) :
           /\ reqs[r].tasks[i].pc = "rejected"
           /\ reqs[r].tasks[j].pc = "done"
           /\ reqs[r].order = <<j, i>>
     /\ CacheKey(reqs[r].rootId) \notin DOMAIN cache

\* ---------------------------------------------------------------- C13 ----
\* What the resolution of one folder yields when run alone: steps A, B, C.
CoverOf(folderId) ==
  LET sub     == ListCoverFolder(folderId)
      inCover == IF sub /= <<>> THEN ListCoverImages(sub[1].id) ELSE <<>>
      direct  == ListFolderImages(folderId)
  IN  IF inCover /= <<>> THEN inCover[1].id
      ELSE IF direct /= <<>> THEN direct[1].id
      ELSE Null

\* One album per folder of the upstream listing, in the listing's order.
ExpectedAlbums(rootId) ==
  LET folders == ListAlbumFolders(rootId)
  IN  [i \in 1..Len(folders) |->
         [id |-> folders[i].id, name |-> folders[i].name,
          coverImageId |-> CoverOf(folders[i].id)]]

\* C13: the array returned and cached for a root holds exactly one album per
\* folder of the upstream listing, in that order, each with the id and name
\* of its folder and the cover of that folder's own resolution, in whatever
\* order the parallel resolutions finish.
C13_ParallelResolutionOrder ==
  /\ \A r \in 1..Len(reqs) :
        LET q == reqs[r]
        IN  (~q.hit /\ q.res.status = 200) =>
              /\ q.res.defined
              /\ q.res.body = ExpectedAlbums(q.rootId)
              /\ Len(q.order) = Len(q.res.body)
              /\ \A i \in 1..Len(q.tasks) :
                    /\ q.tasks[i].folder = q.folders[i]
                    /\ q.res.body[i].coverImageId = q.tasks[i].coverImageId
  /\ \A root \in Roots :
        CacheKey(root) \in DOMAIN cache =>
          cache[CacheKey(root)].v = ExpectedAlbums(root)

\* C13 witness: the second folder's resolution finished before the first's,
\* and the array sent and cached has the first folder's album first.
C13_Witness ==
  \E r \in 1..Len(reqs) :
     /\ ~reqs[r].hit /\ reqs[r].res.status = 200
     /\ reqs[r].order = <<2, 1>>
     /\ reqs[r].res.body[1].id = reqs[r].folders[1].id
     /\ reqs[r].res.body[1].coverImageId /= reqs[r].res.body[2].coverImageId
     /\ CacheKey(reqs[r].rootId) \in DOMAIN cache
     /\ cache[CacheKey(reqs[r].rootId)].v = reqs[r].res.body

\* ---------------------------------------------------------------- C14 ----
\* C14: whenever the handler takes the cache-hit branch (has succeeded), the
\* body it sends is the album array stored under the key by set, also when
\* the clock passes the entry's expiry between has and get; no request is
\* answered 200 without a body.
C14_HitServesStoredValue ==
  \A r \in 1..Len(reqs) :
     /\ reqs[r].hit =>
           /\ reqs[r].res.status = 200
           /\ reqs[r].res.defined
           /\ reqs[r].res.body = reqs[r].seen.v
     /\ reqs[r].res.status = 200 => reqs[r].res.defined

====
